---- MODULE Spec2Model ----
(***************************************************************************)
(* A model of script.py: the command line parser (parseargs), the entry    *)
(* point (main) with the process-wide logging configuration it mutates,    *)
(* the helper getpyfile, and the functional test harness (TestFunctional   *)
(* setUp / sub / tearDown).                                                *)
(*                                                                         *)
(* Strings that the code inspects character by character (command line     *)
(* tokens, file names) are sequences of one-character strings.             *)
(***************************************************************************)
EXTENDS Integers, Sequences, FiniteSets, TLC

VARIABLES
    \* ---- parseargs called on its own (tests.py TestArgParsing)
    pargv,        \* the argument vector handed to parseargs, <<>> before a call
    presult,      \* what parseargs produced for pargv
    \* ---- one process that calls main repeatedly (tests.py TestMain)
    rootLevel,    \* level of the root logger (owned by the embedding program)
    logLevel,     \* level of the logger `log` that main configures
    handlers,     \* handlers attached to `log`, in the order they were added
    fixtures,     \* number of TestMain.setUp calls so far
    phase,        \* "idle" or "ready" (a fixture is set up, main not yet called)
    buffers,      \* buffers[k]: records held by the k-th root BufferingHandler
    outs,         \* outs[k]: what was written to the k-th fixture's out stream
    errs,         \* errs[k]: what was written to the k-th fixture's err stream
    sysout,       \* what optparse wrote to sys.stdout
    syserr,       \* what optparse wrote to sys.stderr
    argv,         \* argument vector of the current test's main call
    opts,         \* options main parsed in that call
    outcome,      \* how that call ended
    passed,       \* number of main calls that got past argument parsing
    \* ---- one functional test (TestFunctional)
    hphase,       \* "pending", "running" or "torn down"
    hcwd,         \* the working directory of the test process
    oldcwd,       \* self.oldcwd
    cwd0,         \* the working directory in effect before setUp
    tmpExists,    \* whether the directory self.tmpdir exists
    processes,    \* self.processes
    pstate,       \* pstate[pid]: "running", "exited" or "killed"
    tracked,      \* every pid that was ever appended to self.processes
    killLog,      \* the kill calls of tearDown and the errno of each (0: none)
    body,         \* "none", or how the test body ended: "passed" / "failed"
    tdResult,     \* how tearDown ended
    \* ---- getpyfile
    filename,     \* the argument of getpyfile
    exists,       \* the exists predicate handed to getpyfile
    pyresult      \* whether getpyfile was called, and the sourcefile it returned

mainVars == <<rootLevel, logLevel, handlers, fixtures, phase, buffers, outs,
              errs, sysout, syserr, argv, opts, outcome, passed>>
parseVars == <<pargv, presult>>
harnessVars == <<hphase, hcwd, oldcwd, cwd0, tmpExists, processes, pstate,
                 tracked, killLog, body, tdResult>>
pyVars == <<filename, exists, pyresult>>
vars == <<pargv, presult, rootLevel, logLevel, handlers, fixtures, phase,
          buffers, outs, errs, sysout, syserr, argv, opts, outcome, passed,
          hphase, hcwd, oldcwd, cwd0, tmpExists, processes, pstate, tracked,
          killLog, body, tdResult, filename, exists, pyresult>>

----------------------------------------------------------------------------
(* Bounds *)

MaxParseArgs == 3   \* tokens after the program name, parseargs on its own
MaxArgs == 2        \* tokens after the program name, in a call of main
MaxRuns == 2        \* TestMain fixtures (and so main calls) in one process
MaxProcs == 2       \* subprocesses one functional test starts
MaxNameLen == 5     \* characters of a file name handed to getpyfile

----------------------------------------------------------------------------
(* Sequence helpers *)

Contains(s, ch) == \E i \in 1..Len(s) : s[i] = ch

startswith(w, s) == Len(s) <= Len(w) /\ SubSeq(w, 1, Len(s)) = s

\* s.split("=", 1)[0]
BeforeEq(s) ==
    LET i == CHOOSE j \in 1..Len(s) :
                 s[j] = "=" /\ \A k \in 1..(j - 1) : s[k] # "="
    IN SubSeq(s, 1, i - 1)

SeqsUpTo(S, n) == UNION { [1..k -> S] : k \in 0..n }

----------------------------------------------------------------------------
(* Command line tokens *)

tq == <<"-", "q">>
ts == <<"-", "s">>
tv == <<"-", "v">>
tvv == <<"-", "v", "v">>
th == <<"-", "h">>
tx == <<"-", "x">>
tquiet == <<"-", "-", "q", "u", "i", "e", "t">>
tsilent == <<"-", "-", "s", "i", "l", "e", "n", "t">>
tverbose == <<"-", "-", "v", "e", "r", "b", "o", "s", "e">>
thelp == <<"-", "-", "h", "e", "l", "p">>
tdashdash == <<"-", "-">>
tfoo == <<"f", "o", "o">>

tbar == <<"b", "a", "r">>

Progs == { tfoo, tbar }

Tokens == { tq, ts, tv, tvv, th, tx, tquiet, tsilent, tverbose,
            tdashdash, tfoo }

Argvs(n) == { <<p>> \o t : p \in Progs, t \in SeqsUpTo(Tokens, n) }

----------------------------------------------------------------------------
(* optparse, as parseargs configures it *)

\* (what the parser does when left as OptionParser creates it)
interspersed_args_allowed == TRUE

allow_interspersed_args == FALSE

defaults == [quiet |-> 0, silent |-> FALSE, verbose |-> 0, status |-> "ok"]

\* The options of the parser: -h/--help is added by OptionParser itself.
long_opt == { thelp, tquiet, tsilent, tverbose }

LongDest(w) ==
    CASE w = thelp -> "help"
      [] w = tquiet -> "quiet"
      [] w = tsilent -> "silent"
      [] w = tverbose -> "verbose"
      [] OTHER -> "none"

\* (a parser that takes any unknown letter for -v)
short_opt_lenient(ch) ==
    CASE ch = "h" -> "help"
      [] ch = "q" -> "quiet"
      [] ch = "s" -> "silent"
      [] OTHER -> "verbose"

short_opt(ch) ==
    CASE ch = "h" -> "help"
      [] ch = "q" -> "quiet"
      [] ch = "s" -> "silent"
      [] ch = "v" -> "verbose"
      [] OTHER -> "none"

\* Option.take_action: "count", "store_true" and "help"; an option the
\* parser does not know is a BadOptionError, which parse_args turns into
\* parser.error.
take_action(dest, values) ==
    CASE dest = "quiet" -> [values EXCEPT !.quiet = @ + 1]
      [] dest = "verbose" -> [values EXCEPT !.verbose = @ + 1]
      [] dest = "silent" -> [values EXCEPT !.silent = TRUE]
      [] dest = "help" -> [values EXCEPT !.status = "help"]
      [] OTHER -> [values EXCEPT !.status = "error"]

\* OptionParser._match_abbrev: the option itself, or the only option it
\* abbreviates; <<>> when there is none or more than one.
match_abbrev(s) ==
    IF s \in long_opt THEN s
    ELSE LET possibilities == { w \in long_opt : startswith(w, s) }
         IN IF Cardinality(possibilities) = 1
            THEN CHOOSE w \in possibilities : TRUE
            ELSE <<>>

\* OptionParser._process_long_opt: none of the options takes a value.
process_long_opt(arg, values) ==
    LET had_explicit_value == Contains(arg, "=")
        opt == match_abbrev(IF had_explicit_value THEN BeforeEq(arg) ELSE arg)
    IN IF opt = <<>> \/ had_explicit_value
       THEN [values EXCEPT !.status = "error"]
       ELSE take_action(LongDest(opt), values)

\* OptionParser._process_short_opts: the characters of a cluster, in order.
RECURSIVE process_short_opts(_, _, _)
process_short_opts(arg, i, values) ==
    IF i > Len(arg) THEN values
    ELSE LET v == take_action(short_opt(arg[i]), values)
         IN IF v.status # "ok" THEN v
            ELSE process_short_opts(arg, i + 1, v)

\* OptionParser._process_args
RECURSIVE process_args(_, _, _)
process_args(largs, rargs, values) ==
    IF rargs = <<>>
    THEN [values |-> values, largs |-> largs, rargs |-> rargs]
    ELSE LET arg == Head(rargs) IN
         IF arg = tdashdash
         THEN [values |-> values, largs |-> largs, rargs |-> Tail(rargs)]
         ELSE IF startswith(arg, tdashdash)
         THEN LET v == process_long_opt(arg, values)
              IN IF v.status # "ok"
                 THEN [values |-> v, largs |-> largs, rargs |-> Tail(rargs)]
                 ELSE process_args(largs, Tail(rargs), v)
         ELSE IF Len(arg) > 1 /\ arg[1] = "-"
         THEN LET v == process_short_opts(arg, 2, values)
              IN IF v.status # "ok"
                 THEN [values |-> v, largs |-> largs, rargs |-> Tail(rargs)]
                 ELSE process_args(largs, Tail(rargs), v)
         ELSE IF allow_interspersed_args
         THEN process_args(Append(largs, arg), Tail(rargs), values)
         ELSE [values |-> values, largs |-> largs, rargs |-> rargs]

\* parseargs(argv): status "ok" is a normal return of (opts, args); "help"
\* is print_help to sys.stdout followed by sys.exit(0); "error" is
\* parser.error: usage to sys.stderr followed by sys.exit(2).
parseargs(av) ==
    LET r == process_args(<<>>, Tail(av), defaults)
    IN [status |-> r.values.status,
        prog |-> av[1],
        opts |-> [quiet |-> r.values.quiet, silent |-> r.values.silent,
                  verbose |-> r.values.verbose],
        args |-> r.largs \o r.rargs]

----------------------------------------------------------------------------
(* logging, as main uses it *)

NOTSET == 0
DEBUG == 10
WARNING == 30
CRITICAL == 50

ReadyToRun == "Ready to run"

\* Logger.getEffectiveLevel: the first level that is set, from the logger
\* up through its parents to the root.
RECURSIVE getEffectiveLevel(_)
getEffectiveLevel(chain) ==
    IF chain = <<>> THEN NOTSET
    ELSE IF Head(chain) # NOTSET THEN Head(chain)
    ELSE getEffectiveLevel(Tail(chain))

\* Logger.isEnabledFor(level) for `log`, whose parents are the logger named
\* after the module (never given a level) and the root logger.
isEnabledFor(level, loglevel, rootlevel) ==
    level >= getEffectiveLevel(<<loglevel, NOTSET, rootlevel>>)

\* (quiet counted the wrong way round)
LevelQuietAdds(o) ==
    LET level == WARNING - ((o.verbose + o.quiet) * 10)
    IN IF o.silent THEN CRITICAL + 1 ELSE level

\* (the silent override left out)
LevelIgnoresSilent(o) == WARNING - ((o.verbose - o.quiet) * 10)

\* main: the level computed from the parsed options.
Level(o) ==
    LET level == WARNING - ((o.verbose - o.quiet) * 10)
    IN IF o.silent THEN CRITICAL + 1 ELSE level

\* (a handler that replaces the ones already attached)
replaceHandlers(hs, h) == <<h>>

\* log.addHandler(handler)
addHandler(hs, h) == Append(hs, h)

StreamHandler(k) == [kind |-> "stream", stream |-> k]

\* StreamHandler.emit with the "%(message)s" formatter, for every stream
\* handler of `log`: the bare message goes to the handler's stream.
WriteAll(streams, hs, msg) ==
    [k \in DOMAIN streams |->
        LET n == Cardinality({ i \in 1..Len(hs) : hs[i] = StreamHandler(k) })
        IN IF n = 0 THEN streams[k]
           ELSE streams[k] \o [j \in 1..n |-> msg]]

\* The record propagates to the root logger, where every TestMain fixture
\* so far has left its BufferingHandler.
BufferAll(bufs, msg) == [k \in DOMAIN bufs |-> Append(bufs[k], msg)]

\* sys.exit(main(sys.argv)): None is exit status 0.
ExitStatus(o) ==
    CASE o = "SystemExit(2)" -> 2
      [] o = "SystemExit(0)" -> 0
      [] OTHER -> 0

----------------------------------------------------------------------------
(* Initial states *)

NoResult == [status |-> "none"]

ParseIdle == pargv = <<>> /\ presult = NoResult

MainIdle ==
    /\ logLevel = NOTSET
    /\ handlers = <<>>
    /\ fixtures = 0
    /\ phase = "idle"
    /\ buffers = <<>>
    /\ outs = <<>>
    /\ errs = <<>>
    /\ sysout = <<>>
    /\ syserr = <<>>
    /\ argv = <<>>
    /\ opts = [quiet |-> 0, silent |-> FALSE, verbose |-> 0]
    /\ outcome = "none"
    /\ passed = 0

HarnessIdle ==
    /\ hphase = "pending"
    /\ oldcwd = "unset"
    /\ tmpExists = FALSE
    /\ processes = <<>>
    /\ pstate = <<>>
    /\ tracked = {}
    /\ killLog = <<>>
    /\ body = "none"
    /\ tdResult = [kind |-> "none", errno |-> 0]

PyIdle ==
    /\ filename = <<>>
    /\ exists = [self |-> FALSE, others |-> FALSE]
    /\ pyresult = [done |-> FALSE, sourcefile |-> <<>>]

----------------------------------------------------------------------------
(* parseargs on its own *)

ParseInit ==
    /\ ParseIdle /\ MainIdle /\ rootLevel = WARNING
    /\ HarnessIdle /\ hcwd = "home" /\ cwd0 = "home"
    /\ PyIdle

CallParseargs ==
    /\ pargv = <<>>
    /\ \E av \in Argvs(MaxParseArgs) :
          /\ pargv' = av
          /\ presult' = parseargs(av)
    /\ UNCHANGED <<mainVars, harnessVars, pyVars>>

ParseNext == CallParseargs

ParseSpec == ParseInit /\ [][ParseNext]_vars

----------------------------------------------------------------------------
(* main, called repeatedly in one process *)

\* The root logger's level belongs to whoever embeds the script: WARNING
\* unless the embedding program (a test runner, say) has cleared it.
Init ==
    /\ ParseIdle /\ MainIdle /\ rootLevel \in {WARNING, NOTSET}
    /\ HarnessIdle /\ hcwd = "home" /\ cwd0 = "home"
    /\ PyIdle

\* TestMain.setUp: a new BufferingHandler on the root logger and two new
\* streams; the arguments and the result of the previous test are gone.
TestMain_setUp ==
    /\ phase = "idle"
    /\ fixtures < MaxRuns
    /\ fixtures' = fixtures + 1
    /\ buffers' = Append(buffers, <<>>)
    /\ outs' = Append(outs, <<>>)
    /\ errs' = Append(errs, <<>>)
    /\ phase' = "ready"
    /\ argv' = <<>>
    /\ opts' = [quiet |-> 0, silent |-> FALSE, verbose |-> 0]
    /\ outcome' = "none"
    /\ UNCHANGED <<rootLevel, logLevel, handlers, sysout, syserr, passed>>
    /\ UNCHANGED <<parseVars, harnessVars, pyVars>>

\* TestMain.main: main(argv, out=self.out, err=self.err)
TestMain_main ==
    /\ phase = "ready"
    /\ phase' = "idle"
    /\ \E av \in Argvs(MaxArgs) :
          LET r == parseargs(av)
              level == Level(r.opts)
              hs == addHandler(handlers, StreamHandler(fixtures))
          IN /\ argv' = av
             /\ IF r.status = "error"
                THEN /\ syserr' = Append(syserr, [kind |-> "usage", prog |-> r.prog])
                     /\ outcome' = "SystemExit(2)"
                     /\ UNCHANGED <<logLevel, handlers, buffers, errs, sysout,
                                    opts, passed>>
                ELSE IF r.status = "help"
                THEN /\ sysout' = Append(sysout, [kind |-> "help", prog |-> r.prog])
                     /\ outcome' = "SystemExit(0)"
                     /\ UNCHANGED <<logLevel, handlers, buffers, errs, syserr,
                                    opts, passed>>
                ELSE /\ opts' = r.opts
                     /\ handlers' = hs
                     /\ logLevel' = level
                     /\ IF isEnabledFor(DEBUG, level, rootLevel)
                        THEN /\ errs' = WriteAll(errs, hs, ReadyToRun)
                             /\ buffers' = BufferAll(buffers, ReadyToRun)
                        ELSE UNCHANGED <<errs, buffers>>
                     /\ outcome' = "None"
                     /\ passed' = passed + 1
                     /\ UNCHANGED <<sysout, syserr>>
    /\ UNCHANGED <<rootLevel, fixtures, outs>>
    /\ UNCHANGED <<parseVars, harnessVars, pyVars>>

Next == TestMain_setUp \/ TestMain_main

Spec == Init /\ [][Next]_vars

----------------------------------------------------------------------------
(* The functional test harness *)

ESRCH == 3

\* errno values other than ESRCH that kill can fail with (EPERM).
OtherErrnos == { 1 }

StartDirs == { "home", "work" }

TmpDir == "tmp"

NoError == [kind |-> "none", errno |-> 0]

\* (every failure of kill is raised)
reraise_always(errno) == TRUE

\* tearDown: `if e.errno != 3: raise`
reraise(errno) == errno # ESRCH

\* (an `if` where the code has a `while`: only one process is reaped)
kill_first_only(procs, st, log, res) ==
    IF procs = <<>>
    THEN [processes |-> procs, pstate |-> st, killLog |-> log, raised |-> 0]
    ELSE LET process == procs[Len(procs)]
             rest == SubSeq(procs, 1, Len(procs) - 1)
             e == res[process]
         IN [processes |-> rest,
             pstate |-> IF e = 0 THEN [st EXCEPT ![process] = "killed"] ELSE st,
             killLog |-> Append(log, [pid |-> process, errno |-> e]),
             raised |-> IF e # 0 /\ reraise(e) THEN e ELSE 0]

\* tearDown: `while self.processes: process = self.processes.pop() ...`;
\* res[pid] is what the operating system answers to process.kill():
\* 0 when the signal is delivered, an errno otherwise.
RECURSIVE kill_loop(_, _, _, _)
kill_loop(procs, st, log, res) ==
    IF procs = <<>>
    THEN [processes |-> procs, pstate |-> st, killLog |-> log, raised |-> 0]
    ELSE LET process == procs[Len(procs)]
             rest == SubSeq(procs, 1, Len(procs) - 1)
             e == res[process]
             st2 == IF e = 0 THEN [st EXCEPT ![process] = "killed"] ELSE st
             log2 == Append(log, [pid |-> process, errno |-> e])
         IN IF e # 0 /\ reraise(e)
            THEN [processes |-> rest, pstate |-> st2, killLog |-> log2,
                  raised |-> e]
            ELSE kill_loop(rest, st2, log2, res)

\* What the operating system can answer to kill for a process in state s.
KillAnswers(s) ==
    IF s = "running" THEN {0} \cup OtherErrnos ELSE { ESRCH }

HarnessInit ==
    /\ ParseIdle /\ MainIdle /\ rootLevel = WARNING
    /\ HarnessIdle
    /\ hcwd \in StartDirs
    /\ cwd0 = hcwd
    /\ PyIdle

\* TestFunctional.setUp
TestFunctional_setUp ==
    /\ hphase = "pending"
    /\ processes' = <<>>
    /\ tmpExists' = TRUE
    /\ oldcwd' = hcwd
    /\ hcwd' = TmpDir
    /\ hphase' = "running"
    /\ UNCHANGED <<cwd0, pstate, tracked, killLog, body, tdResult>>
    /\ UNCHANGED <<parseVars, mainVars, pyVars>>

\* TestFunctional.sub, called by the test body: with communicate the child
\* has ended when sub returns, without it the child is left running and
\* appended to self.processes.
TestFunctional_sub ==
    /\ hphase = "running"
    /\ body = "none"
    /\ Len(pstate) < MaxProcs
    /\ \E communicate \in BOOLEAN :
          LET pid == Len(pstate) + 1
          IN IF communicate
             THEN /\ pstate' = Append(pstate, "exited")
                  /\ UNCHANGED <<processes, tracked>>
             ELSE /\ pstate' = Append(pstate, "running")
                  /\ processes' = Append(processes, pid)
                  /\ tracked' = tracked \cup {pid}
    /\ UNCHANGED <<hphase, hcwd, oldcwd, cwd0, tmpExists, killLog, body,
                   tdResult>>
    /\ UNCHANGED <<parseVars, mainVars, pyVars>>

\* A child that was left running ends on its own.
ProcessExits ==
    /\ hphase = "running"
    /\ \E pid \in 1..Len(pstate) :
          /\ pstate[pid] = "running"
          /\ pstate' = [pstate EXCEPT ![pid] = "exited"]
    /\ UNCHANGED <<hphase, hcwd, oldcwd, cwd0, tmpExists, processes, tracked,
                   killLog, body, tdResult>>
    /\ UNCHANGED <<parseVars, mainVars, pyVars>>

\* The test body returns or raises.
TestBodyEnds ==
    /\ hphase = "running"
    /\ body = "none"
    /\ body' \in {"passed", "failed"}
    /\ UNCHANGED <<hphase, hcwd, oldcwd, cwd0, tmpExists, processes, pstate,
                   tracked, killLog, tdResult>>
    /\ UNCHANGED <<parseVars, mainVars, pyVars>>

\* TestFunctional.tearDown, which unittest calls once setUp has succeeded,
\* whether the body passed or failed.
TestFunctional_tearDown ==
    /\ hphase = "running"
    /\ body # "none"
    /\ \E res \in [1..Len(pstate) -> {0, ESRCH} \cup OtherErrnos] :
          /\ \A pid \in 1..Len(pstate) : res[pid] \in KillAnswers(pstate[pid])
          /\ LET r == kill_loop(processes, pstate, <<>>, res)
             IN /\ tmpExists' = FALSE
                /\ hcwd' = oldcwd
                /\ processes' = r.processes
                /\ pstate' = r.pstate
                /\ killLog' = r.killLog
                /\ tdResult' = IF r.raised = 0
                               THEN [kind |-> "returned", errno |-> 0]
                               ELSE [kind |-> "OSError", errno |-> r.raised]
    /\ hphase' = "torn down"
    /\ UNCHANGED <<oldcwd, cwd0, tracked, body>>
    /\ UNCHANGED <<parseVars, mainVars, pyVars>>

HarnessNext ==
    \/ TestFunctional_setUp
    \/ TestFunctional_sub
    \/ ProcessExits
    \/ TestBodyEnds
    \/ TestFunctional_tearDown

HarnessSpec == HarnessInit /\ [][HarnessNext]_vars

----------------------------------------------------------------------------
(* getpyfile *)

NameChars == { "f", ".", "p", "y", "c", "/" }

Names == SeqsUpTo(NameChars, MaxNameLen)

dotpy == <<".", "p", "y">>

\* str.rfind, counting from 1: 0 when ch does not occur.
rfind(p, ch) ==
    IF Contains(p, ch)
    THEN CHOOSE i \in 1..Len(p) :
             p[i] = ch /\ \A j \in (i + 1)..Len(p) : p[j] # ch
    ELSE 0

\* os.path.splitext (posixpath): the extension starts at the last dot of
\* the last path component; leading dots of that component do not count.
splitext(p) ==
    LET sepIndex == rfind(p, "/")
        dotIndex == rfind(p, ".")
    IN IF dotIndex > sepIndex
          /\ \E k \in (sepIndex + 1)..(dotIndex - 1) : p[k] # "."
       THEN [base |-> SubSeq(p, 1, dotIndex - 1),
             ext |-> SubSeq(p, dotIndex, Len(p))]
       ELSE [base |-> p, ext |-> <<>>]

\* The exists predicate of a call: one answer for the file name the call
\* was given and one for every other name.
Exists(e, fname, x) == IF x = fname THEN e.self ELSE e.others

\* (only the extension ".py" itself is resolved)
getpyfile_exact_ext(fname, e) ==
    LET sp == splitext(fname)
        resolved == IF sp.ext = dotpy THEN sp.base \o dotpy ELSE fname
    IN IF ~Exists(e, fname, resolved) THEN fname ELSE resolved

\* getpyfile(filename, exists=e), split left at os.path.splitext
getpyfile(fname, e) ==
    LET sp == splitext(fname)
        resolved == IF SubSeq(sp.ext, 1, IF Len(sp.ext) < 3 THEN Len(sp.ext) ELSE 3) = dotpy
                    THEN sp.base \o dotpy
                    ELSE fname
    IN IF ~Exists(e, fname, resolved) THEN fname ELSE resolved

PyInit ==
    /\ ParseIdle /\ MainIdle /\ rootLevel = WARNING
    /\ HarnessIdle /\ hcwd = "home" /\ cwd0 = "home"
    /\ filename \in Names
    /\ exists \in [self : BOOLEAN, others : BOOLEAN]
    /\ pyresult = [done |-> FALSE, sourcefile |-> <<>>]

CallGetpyfile ==
    /\ ~pyresult.done
    /\ pyresult' = [done |-> TRUE, sourcefile |-> getpyfile(filename, exists)]
    /\ UNCHANGED <<filename, exists>>
    /\ UNCHANGED <<parseVars, mainVars, harnessVars>>

PyNext == CallGetpyfile

PySpec == PyInit /\ [][PyNext]_vars

----------------------------------------------------------------------------
(* How the claims read an argument vector *)

\* A token the parser takes for an option: a dash and something more, the
\* bare "--" excepted.
IsOptionLike(t) == Len(t) > 1 /\ t[1] = "-" /\ t # tdashdash

\* The index of the first token that is no option (Len + 1 when all are).
Boundary(t) ==
    IF \A i \in 1..Len(t) : IsOptionLike(t[i]) THEN Len(t) + 1
    ELSE CHOOSE i \in 1..Len(t) :
             /\ ~IsOptionLike(t[i])
             /\ \A j \in 1..(i - 1) : IsOptionLike(t[j])

IsShortCluster(t) == IsOptionLike(t) /\ t[2] # "-"

\* "flags": only -q/-s/-v (or their long forms); "help": -h/--help comes
\* first; "bad": a flag the parser does not know comes first.
TokenClass(t) ==
    IF IsShortCluster(t)
    THEN IF \A j \in 2..Len(t) : t[j] \in {"q", "s", "v"} THEN "flags"
         ELSE LET j == CHOOSE k \in 2..Len(t) :
                           /\ t[k] \notin {"q", "s", "v"}
                           /\ \A m \in 2..(k - 1) : t[m] \in {"q", "s", "v"}
              IN IF t[j] = "h" THEN "help" ELSE "bad"
    ELSE IF t \in {tquiet, tsilent, tverbose} THEN "flags"
    ELSE IF t = thelp THEN "help"
    ELSE "bad"

\* How many times token t gives the flag with short letter ch, long form w.
FlagCount(t, ch, w) ==
    IF IsShortCluster(t) THEN Cardinality({ j \in 2..Len(t) : t[j] = ch })
    ELSE IF t = w THEN 1 ELSE 0

RECURSIVE SumTo(_, _)
SumTo(f, n) == IF n = 0 THEN 0 ELSE f[n] + SumTo(f, n - 1)

FlagTotal(t, ch, w) ==
    LET b == Boundary(t)
    IN SumTo([i \in 1..(b - 1) |-> FlagCount(t[i], ch, w)], b - 1)

\* Recognized flags and then positionals.
FlagsThenPositionals(t) ==
    \A i \in 1..(Boundary(t) - 1) : TokenClass(t[i]) = "flags"

FromBoundary(t) == SubSeq(t, Boundary(t), Len(t))

AfterTerminator(t) ==
    IF Boundary(t) <= Len(t) /\ t[Boundary(t)] = tdashdash
    THEN SubSeq(t, Boundary(t) + 1, Len(t))
    ELSE FromBoundary(t)

ParsedAsCounted(t, r) ==
    /\ r.status = "ok"
    /\ r.opts.quiet = FlagTotal(t, "q", tquiet)
    /\ r.opts.verbose = FlagTotal(t, "v", tverbose)
    /\ r.opts.silent = (FlagTotal(t, "s", tsilent) > 0)

----------------------------------------------------------------------------
(* Claims about parseargs (checked under ParseSpec) *)

\* C4, as stated: for a vector of recognized flags followed by positionals
\* parseargs returns normally, the counts are those of the flags before the
\* first non-flag token, and args is every token from that one onward.
C4_ArgsFromFirstNonFlag ==
    (pargv # <<>> /\ FlagsThenPositionals(Tail(pargv))) =>
        /\ ParsedAsCounted(Tail(pargv), presult)
        /\ presult.args = FromBoundary(Tail(pargv))

\* C4, amended: as above, except that when the first non-flag token is the
\* terminator "--" it is consumed and args starts with the token after it.
C4_ArgsAfterFlagsAndTerminator ==
    (pargv # <<>> /\ FlagsThenPositionals(Tail(pargv))) =>
        /\ ParsedAsCounted(Tail(pargv), presult)
        /\ presult.args = AfterTerminator(Tail(pargv))

C4_Witness ==
    /\ pargv # <<>>
    /\ FlagsThenPositionals(Tail(pargv))
    /\ presult.status = "ok"
    /\ presult.opts.verbose = 1
    /\ Tail(pargv) = <<tv, tdashdash, tq>>
    /\ presult.args = <<tq>>

----------------------------------------------------------------------------
(* Claims about main (checked under Spec) *)

Returned == phase = "idle" /\ outcome = "None"

ClaimedLevel(o) ==
    IF o.silent THEN CRITICAL + 1
    ELSE WARNING - ((o.verbose - o.quiet) * 10)

Diff == opts.verbose - opts.quiet

\* C1: after main has parsed its options the logger level is
\* WARNING - ((verbose - quiet) * 10), or CRITICAL + 1 when silent is set
\* whatever verbose and quiet are; with no flags it is exactly WARNING.
C1_LevelFromOptions ==
    Returned =>
        /\ opts.quiet >= 0 /\ opts.verbose >= 0
        /\ logLevel = ClaimedLevel(opts)
        /\ opts.silent => logLevel > CRITICAL
        /\ (\A i \in 2..Len(argv) : ~IsOptionLike(argv[i])) => logLevel = WARNING

C1_Witness ==
    /\ Returned
    /\ ~opts.silent
    /\ opts.verbose = 2
    /\ opts.quiet = 1
    /\ logLevel = 20

\* C2: when main returns from an invocation whose flags include -s, with
\* any -v and -q flags, that invocation has produced no log record and its
\* normal stream and its error stream are empty.
C2_SilentOverrides ==
    (Returned /\ opts.silent) =>
        /\ buffers[fixtures] = <<>>
        /\ outs[fixtures] = <<>>
        /\ errs[fixtures] = <<>>

C2_Witness ==
    /\ Returned
    /\ opts.silent
    /\ opts.verbose = 2
    /\ buffers[fixtures] = <<>>
    /\ errs[fixtures] = <<>>

Prefix == SubSeq(Tail(argv), 1, Boundary(Tail(argv)) - 1)

HasBad == \E i \in 1..Len(Prefix) : TokenClass(Prefix[i]) = "bad"
HasHelp == \E i \in 1..Len(Prefix) : TokenClass(Prefix[i]) = "help"

\* The class of the first token of the prefix that is not made of -q/-s/-v.
FirstDecisive ==
    IF \A i \in 1..Len(Prefix) : TokenClass(Prefix[i]) = "flags" THEN "flags"
    ELSE TokenClass(Prefix[CHOOSE i \in 1..Len(Prefix) :
                               /\ TokenClass(Prefix[i]) # "flags"
                               /\ \A j \in 1..(i - 1) :
                                      TokenClass(Prefix[j]) = "flags"])

UsageFailure ==
    /\ outcome = "SystemExit(2)"
    /\ ExitStatus(outcome) # 0
    /\ syserr # <<>>
    /\ syserr[Len(syserr)] = [kind |-> "usage", prog |-> argv[1]]

HelpShown ==
    /\ outcome = "SystemExit(0)"
    /\ ExitStatus(outcome) = 0
    /\ sysout # <<>>
    /\ sysout[Len(sysout)] = [kind |-> "help", prog |-> argv[1]]

Success == outcome = "None" /\ ExitStatus(outcome) = 0

Called == phase = "idle" /\ argv # <<>>

\* C5, as stated: an unrecognized flag in the flag prefix always ends in a
\* usage failure with a non-zero status; -h/--help prints usage text with
\* the program name and exits 0; every other invocation returns None.
C5_ExitOutcome ==
    Called =>
        /\ HasBad => UsageFailure
        /\ (HasHelp /\ ~HasBad) => HelpShown
        /\ (~HasHelp /\ ~HasBad) => Success

\* C5, amended: the first token of the flag prefix that is -h/--help or an
\* unrecognized flag decides: an unrecognized flag ends in a usage failure
\* with a non-zero status, -h/--help prints usage text with the program name
\* and exits 0; an invocation with neither returns None.
C5_FirstDecisiveFlag ==
    Called =>
        /\ FirstDecisive = "bad" => UsageFailure
        /\ FirstDecisive = "help" => HelpShown
        /\ FirstDecisive = "flags" => Success

C5_Witness ==
    /\ Called
    /\ Tail(argv) = <<th, tx>>
    /\ HelpShown

StreamHandlers == { i \in 1..Len(handlers) : handlers[i].kind = "stream" }

\* C10: every main call that gets past argument parsing attaches exactly one
\* stream handler and none is ever removed, so after n such calls the logger
\* holds n stream handlers and its level is the one the latest of them
\* computed; a readiness message is written once to the error stream of each
\* of those calls; a call that fails argument parsing changes neither the
\* handlers nor the level.
C10_HandlersOnlyGrow ==
    /\ [](/\ Cardinality(StreamHandlers) = passed
          /\ Returned => logLevel = ClaimedLevel(opts))
    /\ [][ IF phase = "ready" /\ outcome' = "None"
           THEN /\ handlers' = Append(handlers, StreamHandler(fixtures))
                /\ passed' = passed + 1
                /\ \A k \in 1..fixtures :
                      errs'[k] =
                        IF buffers'[fixtures] # <<>>
                           /\ \E i \in 1..Len(handlers') :
                                  handlers'[i] = StreamHandler(k)
                        THEN Append(errs[k], ReadyToRun)
                        ELSE errs[k]
           ELSE /\ handlers' = handlers
                /\ logLevel' = logLevel
                /\ passed' = passed ]_vars

C10_Witness ==
    /\ passed = 2
    /\ Len(handlers) = 2
    /\ buffers[1] = <<ReadyToRun>>
    /\ buffers[2] = <<ReadyToRun>>
    /\ errs[1] = <<ReadyToRun>>
    /\ errs[2] = <<ReadyToRun>>

----------------------------------------------------------------------------
(* Claims about the functional test harness (checked under HarnessSpec) *)

TornDown == hphase = "torn down"

KillCalledOn == { killLog[i].pid : i \in 1..Len(killLog) }

OnlyBenignKills ==
    \A i \in 1..Len(killLog) : killLog[i].errno \in {0, ESRCH}

\* C6: when every kill of tearDown either succeeds or fails with errno 3,
\* tearDown returns normally, self.processes is empty afterwards and kill
\* has been called on every process that was registered.
C6_TeardownReapsAll ==
    (TornDown /\ OnlyBenignKills) =>
        /\ tdResult.kind = "returned"
        /\ processes = <<>>
        /\ KillCalledOn = tracked
        /\ Len(killLog) = Cardinality(tracked)

C6_Witness ==
    /\ TornDown
    /\ OnlyBenignKills
    /\ Cardinality(tracked) = 2
    /\ \E i \in 1..Len(killLog) : killLog[i].errno = ESRCH
    /\ \E i \in 1..Len(killLog) : killLog[i].errno = 0
    /\ tdResult.kind = "returned"

\* A failed kill was swallowed when tearDown went on after it.
Swallowed(i) == ~(tdResult.kind = "OSError" /\ i = Len(killLog))

\* C7: a failure of kill during tearDown is swallowed if and only if it is
\* errno 3; any other failure leaves tearDown as the OSError that kill
\* raised.
C7_OnlyEsrchSwallowed ==
    TornDown =>
        /\ \A i \in 1..Len(killLog) :
              killLog[i].errno # 0 =>
                  (Swallowed(i) <=> killLog[i].errno = ESRCH)
        /\ tdResult.kind = "OSError" =>
              /\ killLog # <<>>
              /\ tdResult.errno = killLog[Len(killLog)].errno
              /\ tdResult.errno \notin {0, ESRCH}
        /\ tdResult.kind \in {"returned", "OSError"}

C7_Witness ==
    /\ TornDown
    /\ Len(killLog) = 2
    /\ killLog[1].errno = ESRCH
    /\ killLog[2].errno \in OtherErrnos
    /\ tdResult = [kind |-> "OSError", errno |-> killLog[2].errno]

\* C9: a test is set up in a temporary directory it has made its working
\* directory, and whenever tearDown has run, whether the body passed or
\* failed, the temporary directory is removed, the working directory is the
\* one in effect before setUp, and kill has been called on every tracked
\* subprocess, none of which is left in self.processes.
C9_CleanupGuaranteed ==
    /\ hphase = "running" => (tmpExists /\ hcwd = TmpDir)
    /\ TornDown =>
          /\ body \in {"passed", "failed"}
          /\ ~tmpExists
          /\ hcwd = cwd0
          /\ processes = <<>>
          /\ tracked \subseteq KillCalledOn

----------------------------------------------------------------------------
(* Claims about getpyfile (checked under PySpec) *)

Called_getpyfile == pyresult.done

\* The extension is one of the .py family (.py, .pyc, .pyo, ...).
HasPyExt(f) == startswith(splitext(f).ext, dotpy)

PyFile(f) == splitext(f).base \o dotpy

\* C8: a name with an extension of the .py family resolves to the .py file
\* of the same base when exists says that file is there; a name without such
\* an extension is returned as it is; and when the resolved file does not
\* exist the original name is returned.
C8_Getpyfile ==
    Called_getpyfile =>
        /\ (HasPyExt(filename) /\ Exists(exists, filename, PyFile(filename)))
               => pyresult.sourcefile = PyFile(filename)
        /\ ~HasPyExt(filename) => pyresult.sourcefile = filename
        /\ (HasPyExt(filename) /\ ~Exists(exists, filename, PyFile(filename)))
               => pyresult.sourcefile = filename

C8_Witness ==
    /\ Called_getpyfile
    /\ filename = <<"f", ".", "p", "y", "c">>
    /\ pyresult.sourcefile = <<"f", ".", "p", "y">>

====
